---- MODULE Spec2Model ----
(***************************************************************************)
(* Model of src/utils/utils.cpp (namespace deblur): crossCorrelation,      *)
(* conv2, swapQuadrants, fillPixel and edgeTaper.                          *)
(*                                                                         *)
(* A cv::Mat is a record [rows, cols, at] whose `at` maps <<row, col>>     *)
(* (0-based, as Mat::at<T>(row, col)) to the sample.  A cv::Point is a     *)
(* record [x, y].  The loops of edgeTaper are modelled one iteration per   *)
(* step, the other functions one call per step.                            *)
(***************************************************************************)
EXTENDS Integers, FiniteSets, Sequences, TLC

VARIABLES
    pc,                 \* position of the running call
    src, dst, mask,     \* arguments of edgeTaper / conv2 / crossCorrelation
    image,              \* edgeTaper's guide image; swapQuadrants' argument
    taperedHorizontal,  \* edgeTaper local
    taperedVertical,    \* edgeTaper local
    left, start,        \* edgeTaper locals
    row, col,           \* edgeTaper loop counters
    kernel, shape,      \* conv2 arguments
    tmp,                \* conv2 local: the result of filter2D
    roi,                \* conv2 local: the Rect handed to tmp(...)
    X, Y,               \* crossCorrelation arguments
    result,             \* crossCorrelation return value
    original,           \* the caller's copy of the grid given to swapQuadrants
    calls               \* number of swapQuadrants calls made so far

vars == <<pc, src, dst, mask, image, taperedHorizontal, taperedVertical,
          left, start, row, col, kernel, shape, tmp, roi, X, Y, result,
          original, calls>>

----------------------------------------------------------------------------
(* Bounds of the model *)

MaxRows == 2
MaxCols == 5
\* largest number of pixels of an edgeTaper input when every mask is tried
MaskedCells == 4
\* largest number of pixels of an edgeTaper input when the mask is uniform
FillCells == 6
\* largest number of samples of conv2's src and kernel
SrcCells == 4
KernelCells == 3
\* largest number of samples of crossCorrelation's grids
CorrCells == 3
\* largest grid given to swapQuadrants, and the calls the caller makes
SwapRows == 3
SwapCols == 3
SwapCalls == 2

\* gray values of edgeTaper's src: 0 is "occluded"
Pixel == {0, 5, 9}
\* samples of conv2's src, and taps of its kernel in units of 1/2
SrcSample == 1 .. 4
KernelTap == {0, 1}
\* samples of crossCorrelation's grids and of swapQuadrants' grid
CorrSample == {-1, 0, 1}
SwapSample == {0, 1}
\* gray values of the (uniform) guide image
GuidePixel == {3}

----------------------------------------------------------------------------
(* cv::Mat and cv::Point *)

Point(px, py) == [x |-> px, y |-> py]

Cells(r, c) == (0 .. r - 1) \X (0 .. c - 1)

\* a default-constructed Mat
NoMat == [rows |-> 0, cols |-> 0, at |-> [p \in {} |-> 0]]

Grids(r, c, V) ==
    {[rows |-> r, cols |-> c, at |-> f] : f \in [Cells(r, c) -> V]}

Uniform(r, c, v) == [rows |-> r, cols |-> c, at |-> [p \in Cells(r, c) |-> v]]

Shapes(maxCells) ==
    {s \in (1 .. MaxRows) \X (1 .. MaxCols) : s[1] * s[2] <= maxCells}

\* a division by 2 that rounds toward minus infinity instead
Div2Floor(n) == n \div 2

\* C++ integer division by 2 truncates toward zero
Div2(n) == IF n >= 0 THEN n \div 2 ELSE -((-n) \div 2)

\* saturate_cast<uchar>(num / den) for num >= 0: cvRound rounds to nearest,
\* ties to even, then clamps to 255
RoundDiv(num, den) ==
    LET q == num \div den
        r == num % den
        n == IF 2 * r > den \/ (2 * r = den /\ q % 2 = 1) THEN q + 1 ELSE q
    IN  IF n > 255 THEN 255 ELSE n

----------------------------------------------------------------------------
(* fillPixel and edgeTaper *)

fillPixel(img, s, e, color) ==
    [img EXCEPT !.at =
        [p \in DOMAIN img.at |->
            IF /\ s.y <= p[1] /\ p[1] <= e.y
               /\ s.x <= p[2] /\ p[2] <= e.x
            THEN color ELSE img.at[p]]]

NoStart == Point(-1, -1)

threshold == 0

\* closeRun without the override `if (start.x == 0) left = value`
closeRunKeepLeft(img, value, atFirst, atLast) ==
    LET end    == Point(col - Div2(col - start.x), row - Div2(row - start.y))
        img1   == fillPixel(img, start, end, left)
        value1 == IF atLast THEN left ELSE value
    IN  [image |-> fillPixel(img1, end, Point(col, row), value1),
         left  |-> left]

\* The body of `if (value > threshold || <end of line>) { ... }`: both fills
\* of a detected region.  atFirst is the test (start.x == 0) of the row scans
\* and (start.y == 0) of the column scan, atLast the test for the last pixel
\* of the scan line.  Yields the filled image and the new value of `left`.
closeRun(img, value, atFirst, atLast) ==
    LET end    == Point(col - Div2(col - start.x), row - Div2(row - start.y))
        left1  == IF atFirst THEN value ELSE left
        img1   == fillPixel(img, start, end, left1)
        value1 == IF atLast THEN left1 ELSE value
    IN  [image |-> fillPixel(img1, end, Point(col, row), value1),
         left  |-> left1]

\* addWeighted(a, wa/10, b, wb/10, 0.0, dst) on 8-bit grids
addWeighted(a, wa, b, wb) ==
    [a EXCEPT !.at =
        [p \in DOMAIN a.at |-> RoundDiv(wa * a.at[p] + wb * b.at[p], 10)]]

\* GaussianBlur keeps the size of its input, and each of its samples is a
\* rounded weighted mean of the input's samples (the kernel is normalized, the
\* border reflected), so it lies between the input's extremes.  The kernel
\* arithmetic of the library is not reproduced: the model lets every sample
\* of the result be either extreme, so the blur of a uniform grid is the grid.
Samples(img) == {img.at[p] : p \in DOMAIN img.at}

Lowest(img) == CHOOSE v \in Samples(img) : \A w \in Samples(img) : v <= w

Highest(img) == CHOOSE v \in Samples(img) : \A w \in Samples(img) : v >= w

GaussianBlur(img) == Grids(img.rows, img.cols, {Lowest(img), Highest(img)})

\* a copy under the complement of the mask
copyToUnmasked(from, to, m) ==
    [to EXCEPT !.at =
        [p \in DOMAIN to.at |-> IF m.at[p] = 0 THEN from.at[p] ELSE to.at[p]]]

\* src.copyTo(dst, mask): the samples under a nonzero mask are copied
copyToMasked(from, to, m) ==
    [to EXCEPT !.at =
        [p \in DOMAIN to.at |-> IF m.at[p] # 0 THEN from.at[p] ELSE to.at[p]]]

\* one iteration of the loop `for row { for col { ... } }` of the first pass
HorizontalScan ==
    /\ pc = "horizontal"
    /\ LET value == src.at[<<row, col>>]
           lastCol == col = src.cols - 1
           closed == closeRun(taperedHorizontal, value, start.x = 0, lastCol)
       IN  /\ IF start # NoStart
              THEN IF value > threshold \/ lastCol
                   THEN /\ taperedHorizontal' = closed.image
                        /\ left' = closed.left
                        /\ start' = NoStart
                   ELSE UNCHANGED <<taperedHorizontal, left, start>>
              ELSE IF value <= threshold
                   THEN /\ left' = (IF col > 0 THEN src.at[<<row, col - 1>>] ELSE 0)
                        /\ start' = Point(col, row)
                        /\ UNCHANGED taperedHorizontal
                   ELSE UNCHANGED <<taperedHorizontal, left, start>>
           /\ IF ~lastCol
              THEN /\ col' = col + 1
                   /\ UNCHANGED <<row, pc>>
              ELSE IF row < src.rows - 1
                   THEN /\ col' = 0
                        /\ row' = row + 1
                        /\ UNCHANGED pc
                   ELSE /\ col' = 0
                        /\ row' = 0
                        /\ pc' = "beginVertical"
    /\ UNCHANGED <<src, dst, mask, image, taperedVertical, kernel, shape, tmp,
                   roi, X, Y, result, original, calls>>

\* lines 484-488: the copy and the resets between the first two passes
BeginVertical ==
    /\ pc = "beginVertical"
    /\ taperedVertical' = src
    /\ left' = 0
    /\ start' = NoStart
    /\ pc' = "vertical"
    /\ UNCHANGED <<src, dst, mask, image, taperedHorizontal, row, col, kernel,
                   shape, tmp, roi, X, Y, result, original, calls>>

\* one iteration of the loop `for col { for row { ... } }` of the second pass
VerticalScan ==
    /\ pc = "vertical"
    /\ LET value == src.at[<<row, col>>]
           lastRow == row = src.rows - 1
           closed == closeRun(taperedVertical, value, start.y = 0, lastRow)
       IN  /\ IF start # NoStart
              THEN IF value > threshold \/ lastRow
                   THEN /\ taperedVertical' = closed.image
                        /\ left' = closed.left
                        /\ start' = NoStart
                   ELSE UNCHANGED <<taperedVertical, left, start>>
              ELSE IF value <= threshold
                   THEN /\ left' = (IF row > 0 THEN src.at[<<row - 1, col>>] ELSE 0)
                        /\ start' = Point(col, row)
                        /\ UNCHANGED taperedVertical
                   ELSE UNCHANGED <<taperedVertical, left, start>>
           /\ IF ~lastRow
              THEN /\ row' = row + 1
                   /\ UNCHANGED <<col, pc>>
              ELSE IF col < src.cols - 1
                   THEN /\ row' = 0
                        /\ col' = col + 1
                        /\ UNCHANGED pc
                   ELSE /\ row' = 0
                        /\ col' = 0
                        /\ pc' = "blend"
    /\ UNCHANGED <<src, dst, mask, image, taperedHorizontal, kernel, shape,
                   tmp, roi, X, Y, result, original, calls>>

\* lines 535-540: the directional blend and the resets before the mask pass
Blend ==
    /\ pc = "blend"
    /\ dst' = addWeighted(taperedHorizontal, 5, taperedVertical, 5)
    /\ left' = 0
    /\ start' = NoStart
    /\ pc' = "mask"
    /\ UNCHANGED <<src, mask, image, taperedHorizontal, taperedVertical, row,
                   col, kernel, shape, tmp, roi, X, Y, result, original, calls>>

\* one iteration of the loop of the mask pass, which fills dst in place
MaskScan ==
    /\ pc = "mask"
    /\ LET value == dst.at[<<row, col>>]
           lastCol == col = src.cols - 1
           closed == closeRun(dst, value, start.x = 0, lastCol)
       IN  /\ IF start # NoStart
              THEN IF mask.at[<<row, col>>] = 0 \/ lastCol
                   THEN /\ dst' = closed.image
                        /\ left' = closed.left
                        /\ start' = NoStart
                   ELSE UNCHANGED <<dst, left, start>>
              ELSE IF mask.at[<<row, col>>] > 0
                   THEN /\ left' = (IF col > 0 THEN dst.at[<<row, col - 1>>] ELSE 0)
                        /\ start' = Point(col, row)
                        /\ UNCHANGED dst
                   ELSE UNCHANGED <<dst, left, start>>
           /\ IF ~lastCol
              THEN /\ col' = col + 1
                   /\ UNCHANGED <<row, pc>>
              ELSE IF row < src.rows - 1
                   THEN /\ col' = 0
                        /\ row' = row + 1
                        /\ UNCHANGED pc
                   ELSE /\ col' = 0
                        /\ row' = 0
                        /\ pc' = "guide"
    /\ UNCHANGED <<src, mask, image, taperedHorizontal, taperedVertical,
                   kernel, shape, tmp, roi, X, Y, result, original, calls>>

\* lines 587-590: blur the guide, blend 0.7 / 0.3, blur the blend
GuideBlend ==
    /\ pc = "guide"
    /\ \E imageGauss \in GaussianBlur(image) :
         \E blurred \in GaussianBlur(addWeighted(dst, 7, imageGauss, 3)) :
            dst' = blurred
    /\ pc' = "restore"
    /\ UNCHANGED <<src, mask, image, taperedHorizontal, taperedVertical, left,
                   start, row, col, kernel, shape, tmp, roi, X, Y, result,
                   original, calls>>

\* line 592: src.copyTo(dst, mask), then return
Restore ==
    /\ pc = "restore"
    /\ dst' = copyToMasked(src, dst, mask)
    /\ pc' = "tapered"
    /\ UNCHANGED <<src, mask, image, taperedHorizontal, taperedVertical, left,
                   start, row, col, kernel, shape, tmp, roi, X, Y, result,
                   original, calls>>

edgeTaper ==
    \/ HorizontalScan
    \/ BeginVertical
    \/ VerticalScan
    \/ Blend
    \/ MaskScan
    \/ GuideBlend
    \/ Restore

\* the state at entry of edgeTaper(src, dst, mask, image), after lines 430-437
EnterEdgeTaper(s, m, g) ==
    /\ pc = "horizontal"
    /\ src = s
    /\ mask = m
    /\ image = g
    /\ dst = NoMat
    /\ taperedHorizontal = s
    /\ taperedVertical = NoMat
    /\ left = 0
    /\ start = NoStart
    /\ row = 0
    /\ col = 0
    /\ kernel = NoMat
    /\ shape = "FULL"
    /\ tmp = NoMat
    /\ roi = [x |-> 0, y |-> 0, width |-> 0, height |-> 0]
    /\ X = NoMat
    /\ Y = NoMat
    /\ result = [E |-> 0, deviationX2 |-> 0, deviationY2 |-> 0]
    /\ original = NoMat
    /\ calls = 0

\* every mask, small grids
InitEdgeTaper ==
    \E s \in Shapes(MaskedCells) :
        \E g \in Grids(s[1], s[2], Pixel), m \in Grids(s[1], s[2], {0, 1}),
           v \in GuidePixel :
            EnterEdgeTaper(g, m, Uniform(s[1], s[2], v))

\* wider grids, the mask marking nothing or everything
InitFill ==
    \E s \in Shapes(FillCells) :
        \E g \in Grids(s[1], s[2], Pixel), m \in {0, 1}, v \in GuidePixel :
            EnterEdgeTaper(g, Uniform(s[1], s[2], m), Uniform(s[1], s[2], v))

SpecEdgeTaper == InitEdgeTaper /\ [][edgeTaper]_vars

SpecFill == InitFill /\ [][edgeTaper]_vars

----------------------------------------------------------------------------
(* conv2 *)

\* Samples of conv2's grids are exact numbers held in units of 1/2 for the
\* kernel (tap 1 stands for 0.5) and hence for tmp and dst, in units of 1
\* for src.

RECURSIVE SumOf(_)
\* the sum of the values of a function with a finite domain
SumOf(f) ==
    IF DOMAIN f = {} THEN 0
    ELSE LET p == CHOOSE q \in DOMAIN f : TRUE
         IN  f[p] + SumOf([q \in DOMAIN f \ {p} |-> f[q]])

\* copyMakeBorder(s, out, top, bottom, lft, rgt, BORDER_CONSTANT, 0)
copyMakeBorder(s, top, bottom, lft, rgt) ==
    [rows |-> s.rows + top + bottom,
     cols |-> s.cols + lft + rgt,
     at   |-> [p \in Cells(s.rows + top + bottom, s.cols + lft + rgt) |->
                 IF <<p[1] - top, p[2] - lft>> \in DOMAIN s.at
                 THEN s.at[<<p[1] - top, p[2] - lft>>] ELSE 0]]

\* flip(k, out, 0): around the x-axis only
flipRows(k) ==
    [k EXCEPT !.at =
        [p \in DOMAIN k.at |-> k.at[<<k.rows - 1 - p[1], p[2]>>]]]

\* flip(k, out, -1): around both axes
flip(k) ==
    [k EXCEPT !.at =
        [p \in DOMAIN k.at |-> k.at[<<k.rows - 1 - p[1], k.cols - 1 - p[2]>>]]]

RECURSIVE borderInterpolate(_, _)
\* the index filter2D reads for position p of a line of len samples under its
\* default border, BORDER_REFLECT_101
borderInterpolate(p, len) ==
    IF 0 <= p /\ p < len THEN p
    ELSE IF len = 1 THEN 0
    ELSE IF p < 0 THEN borderInterpolate(-p, len)
    ELSE borderInterpolate(2 * len - p - 2, len)

\* filter2D(in, out, -1, k, anchor): the correlation of `in` with k, k's
\* sample anchor lying on the output position
filter2D(in, k, anchor) ==
    [in EXCEPT !.at =
        [p \in DOMAIN in.at |->
            SumOf([q \in DOMAIN k.at |->
                k.at[q] * in.at[<<borderInterpolate(p[1] + q[1] - anchor.y, in.rows),
                                  borderInterpolate(p[2] + q[2] - anchor.x, in.cols)>>]])]]

Rect(rx, ry, w, h) == [x |-> rx, y |-> ry, width |-> w, height |-> h]

\* a crop that forgets the `+ 1` of the VALID size
cropRectShort(s, k, t, sh) ==
    LET padSizeX == k.cols - 1
        padSizeY == k.rows - 1
        width    == s.cols - k.cols
        height   == s.rows - k.rows
    IN  CASE sh = "FULL" -> Rect(0, 0, t.cols - padSizeX, t.rows - padSizeY)
          [] sh = "SAME" -> Rect(Div2(t.cols - padSizeX - s.cols + 1),
                                 Div2(t.rows - padSizeY - s.rows + 1),
                                 s.cols, s.rows)
          [] sh = "VALID" -> Rect(Div2(t.cols - padSizeX - width),
                                  Div2(t.rows - padSizeY - height),
                                  width, height)

\* the Rect of the switch at lines 111-132, for the three shapes
cropRect(s, k, t, sh) ==
    LET padSizeX == k.cols - 1
        padSizeY == k.rows - 1
        width    == s.cols - k.cols + 1
        height   == s.rows - k.rows + 1
    IN  CASE sh = "FULL" -> Rect(0, 0, t.cols - padSizeX, t.rows - padSizeY)
          [] sh = "SAME" -> Rect(Div2(t.cols - padSizeX - s.cols + 1),
                                 Div2(t.rows - padSizeY - s.rows + 1),
                                 s.cols, s.rows)
          [] sh = "VALID" -> Rect(Div2(t.cols - padSizeX - width),
                                  Div2(t.rows - padSizeY - height),
                                  width, height)

\* the test Mat::Mat(const Mat&, const Rect&) asserts; tmp(rect) throws when
\* it fails
rectInside(t, rect) ==
    /\ 0 <= rect.x /\ 0 <= rect.width /\ rect.x + rect.width <= t.cols
    /\ 0 <= rect.y /\ 0 <= rect.height /\ rect.y + rect.height <= t.rows

\* tmp(rect): the samples of t under rect
submat(t, rect) ==
    [rows |-> rect.height,
     cols |-> rect.width,
     at   |-> [p \in Cells(rect.height, rect.width) |->
                 t.at[<<rect.y + p[1], rect.x + p[2]>>]]]

\* m.copyTo(out): an empty m releases out
copyTo(m) == IF m.rows = 0 \/ m.cols = 0 THEN NoMat ELSE m

ConvShape == {"FULL", "SAME", "VALID"}

\* the whole call conv2(src, dst, kernel, shape)
conv2 ==
    /\ pc = "conv2"
    /\ LET padSizeX   == kernel.cols - 1
           padSizeY   == kernel.rows - 1
           zeroPadded == copyMakeBorder(src, padSizeY, padSizeY, padSizeX, padSizeX)
           anchor     == Point(0, 0)
           fkernel    == flip(kernel)
           filtered   == filter2D(zeroPadded, fkernel, anchor)
           rect       == cropRect(src, kernel, filtered, shape)
       IN  /\ tmp' = filtered
           /\ IF shape \notin ConvShape
              THEN \* default: throw runtime_error("Invalid shape")
                   /\ pc' = "threw"
                   /\ UNCHANGED <<dst, roi>>
              ELSE /\ roi' = rect
                   /\ IF rectInside(filtered, rect)
                      THEN /\ dst' = copyTo(submat(filtered, rect))
                           /\ pc' = "returned"
                      ELSE /\ pc' = "threw"
                           /\ UNCHANGED dst
    /\ UNCHANGED <<src, mask, image, taperedHorizontal, taperedVertical, left,
                   start, row, col, kernel, shape, X, Y, result, original,
                   calls>>

\* what the caller's dst holds before the call
Stale == Uniform(1, 1, -1)

InitConv2 ==
    /\ pc = "conv2"
    /\ \E s \in Shapes(SrcCells) : src \in Grids(s[1], s[2], SrcSample)
    /\ \E s \in Shapes(KernelCells) : kernel \in Grids(s[1], s[2], KernelTap)
    /\ shape \in ConvShape \cup {"OTHER"}
    /\ dst = Stale
    /\ tmp = NoMat
    /\ roi = Rect(0, 0, 0, 0)
    /\ mask = NoMat
    /\ image = NoMat
    /\ taperedHorizontal = NoMat
    /\ taperedVertical = NoMat
    /\ left = 0
    /\ start = NoStart
    /\ row = 0
    /\ col = 0
    /\ X = NoMat
    /\ Y = NoMat
    /\ result = [E |-> 0, deviationX2 |-> 0, deviationY2 |-> 0]
    /\ original = NoMat
    /\ calls = 0

SpecConv2 == InitConv2 /\ [][conv2]_vars

----------------------------------------------------------------------------
(* Properties of conv2 *)

\* sample (y, x) of the classical linear convolution of s with k, s being 0
\* outside its bounds
FullConvolution(s, k, y, x) ==
    SumOf([q \in DOMAIN k.at |->
        IF <<y - q[1], x - q[2]>> \in DOMAIN s.at
        THEN k.at[q] * s.at[<<y - q[1], x - q[2]>>] ELSE 0])

KernelFits == kernel.rows <= src.rows /\ kernel.cols <= src.cols

\* C1: conv2 returns a dst of (r+kh-1) x (c+kw-1) for FULL, r x c for SAME
\* and (r-kh+1) x (c-kw+1) for VALID (the kernel fitting into src), cropped by
\* a rectangle that lies inside the (r+2(kh-1)) x (c+2(kw-1)) intermediate.
C1_OutputSize ==
    (pc # "conv2" /\ shape \in ConvShape /\ (shape = "VALID" => KernelFits)) =>
        /\ pc = "returned"
        /\ tmp.rows = src.rows + 2 * (kernel.rows - 1)
        /\ tmp.cols = src.cols + 2 * (kernel.cols - 1)
        /\ rectInside(tmp, roi)
        /\ dst.rows = roi.height
        /\ dst.cols = roi.width
        /\ shape = "FULL" => /\ dst.rows = src.rows + kernel.rows - 1
                             /\ dst.cols = src.cols + kernel.cols - 1
        /\ shape = "SAME" => /\ dst.rows = src.rows
                             /\ dst.cols = src.cols
        /\ shape = "VALID" => /\ dst.rows = src.rows - kernel.rows + 1
                              /\ dst.cols = src.cols - kernel.cols + 1

\* a VALID call with a kernel of several taps that is smaller than src
C1_Witness ==
    /\ pc = "returned"
    /\ shape = "VALID"
    /\ kernel.cols >= 2
    /\ kernel.cols < src.cols
    /\ dst.cols = src.cols - kernel.cols + 1
    /\ dst.cols < src.cols

\* the offset in the classical convolution at which conv2 reads its output
CropOffset ==
    CASE shape = "FULL"  -> Point(0, 0)
      [] shape = "SAME"  -> Point(kernel.cols \div 2, kernel.rows \div 2)
      [] shape = "VALID" -> Point(kernel.cols - 1, kernel.rows - 1)

\* C2: every sample of a returned dst is the zero-border linear convolution
\* read at the shape's offset ((0,0), (ceil((kh-1)/2), ceil((kw-1)/2)),
\* (kh-1, kw-1)); the VALID offset is what the SAME formula with its +1 gives
\* for the valid size; and no filter window of an output sample leaves the
\* zero-padded grid, so none reads through the reflected border.
C2_ZeroBorderConvolution ==
    (pc = "returned" /\ (shape = "VALID" => KernelFits)) =>
        /\ roi.x = CropOffset.x
        /\ roi.y = CropOffset.y
        /\ \A p \in DOMAIN dst.at :
              dst.at[p] = FullConvolution(src, kernel, p[1] + CropOffset.y,
                                          p[2] + CropOffset.x)
        /\ shape = "VALID" =>
              /\ roi.x = Div2(tmp.cols - (kernel.cols - 1) - roi.width + 1)
              /\ roi.y = Div2(tmp.rows - (kernel.rows - 1) - roi.height + 1)
        /\ roi.x + roi.width - 1 + (kernel.cols - 1) <= tmp.cols - 1
        /\ roi.y + roi.height - 1 + (kernel.rows - 1) <= tmp.rows - 1

\* the example of the source: src row [1,2,3,4] and kernel [0.5,0,0.5] give
\* [2,3] for VALID (4 and 6 halves), while the last column of tmp holds what
\* the reflected border brought in
C2_Witness ==
    /\ pc = "returned"
    /\ shape = "VALID"
    /\ src.rows = 1 /\ src.cols = 4
    /\ \A c \in 0 .. 3 : src.at[<<0, c>>] = c + 1
    /\ kernel.rows = 1 /\ kernel.cols = 3
    /\ kernel.at[<<0, 0>>] = 1 /\ kernel.at[<<0, 1>>] = 0 /\ kernel.at[<<0, 2>>] = 1
    /\ dst.rows = 1 /\ dst.cols = 2
    /\ dst.at[<<0, 0>>] = 4 /\ dst.at[<<0, 1>>] = 6
    /\ tmp.at[<<0, 7>>] = 4
    /\ FullConvolution(src, kernel, 0, 7) = 0

\* C7: a VALID call whose kernel has more rows or columns than src ends with
\* an error and leaves dst as it was.
C7_OversizedKernelRefused ==
    (pc # "conv2" /\ shape = "VALID" /\ ~KernelFits) =>
        (pc = "threw" /\ dst = Stale)

----------------------------------------------------------------------------
(* crossCorrelation *)

\* The samples are integers and the arithmetic is exact.  With N active
\* samples the means are sums divided by N, so every sum of the loop is held
\* multiplied by N * N, which makes it an integer and leaves the returned
\* quotient E / (sqrt(deviationX) * sqrt(deviationY)) as it is.

\* lines 14-20: Mat::ones when the mask is empty
regionOf(Xg, m) == IF m.rows = 0 \/ m.cols = 0 THEN Uniform(Xg.rows, Xg.cols, 1) ELSE m

Active(region) == {p \in DOMAIN region.at : region.at[p] > 0}

\* N * (Xg(p) - mean(Xg, mask)), mean being 0 when no sample is active
deviationAt(Xg, region, p) ==
    LET N == Cardinality(Active(region))
    IN  (IF N = 0 THEN 1 ELSE N) * Xg.at[p]
            - SumOf([q \in Active(region) |-> Xg.at[q]])

\* E summed over every sample instead of the active ones
sumEEverywhere(Xg, Yg, region) ==
    SumOf([p \in DOMAIN Xg.at |->
        deviationAt(Xg, region, p) * deviationAt(Yg, region, p)])

\* E after the loop of lines 40-55
sumE(Xg, Yg, region) ==
    SumOf([p \in Active(region) |->
        deviationAt(Xg, region, p) * deviationAt(Yg, region, p)])

\* deviationX (deviationY) after the loop, before its square root is taken
sumDeviation(Xg, region) ==
    SumOf([p \in Active(region) |->
        deviationAt(Xg, region, p) * deviationAt(Xg, region, p)])

\* the whole call crossCorrelation(X, Y, mask); the value returned is
\* E / (sqrt(deviationX2) * sqrt(deviationY2))
crossCorrelation ==
    /\ pc = "crossCorrelation"
    /\ LET region == regionOf(X, mask)
       IN  result' = [E           |-> sumE(X, Y, region),
                      deviationX2 |-> sumDeviation(X, region),
                      deviationY2 |-> sumDeviation(Y, region)]
    /\ pc' = "correlated"
    /\ UNCHANGED <<src, dst, mask, image, taperedHorizontal, taperedVertical,
                   left, start, row, col, kernel, shape, tmp, roi, X, Y,
                   original, calls>>

InitCrossCorrelation ==
    /\ pc = "crossCorrelation"
    /\ \E s \in Shapes(CorrCells) :
          /\ X \in Grids(s[1], s[2], CorrSample)
          /\ Y \in Grids(s[1], s[2], CorrSample)
          /\ mask \in Grids(s[1], s[2], {0, 1}) \cup {NoMat}
    /\ result = [E |-> 0, deviationX2 |-> 0, deviationY2 |-> 0]
    /\ src = NoMat
    /\ dst = NoMat
    /\ image = NoMat
    /\ taperedHorizontal = NoMat
    /\ taperedVertical = NoMat
    /\ left = 0
    /\ start = NoStart
    /\ row = 0
    /\ col = 0
    /\ kernel = NoMat
    /\ shape = "FULL"
    /\ tmp = NoMat
    /\ roi = [x |-> 0, y |-> 0, width |-> 0, height |-> 0]
    /\ original = NoMat
    /\ calls = 0

SpecCrossCorrelation == InitCrossCorrelation /\ [][crossCorrelation]_vars

----------------------------------------------------------------------------
(* Properties of crossCorrelation *)

Negated(Xg) == [Xg EXCEPT !.at = [p \in DOMAIN Xg.at |-> -Xg.at[p]]]

\* at least two distinct values among the active samples of X
TwoActiveValues ==
    \E p, q \in Active(regionOf(X, mask)) : X.at[p] # X.at[q]

\* the returned quotient is exactly 1: E = DX * DY with DX * DY > 0
ReturnsOne ==
    /\ result.E > 0
    /\ result.E * result.E = result.deviationX2 * result.deviationY2

\* the returned quotient is exactly -1: E = -(DX * DY) with DX * DY > 0
ReturnsMinusOne ==
    /\ result.E < 0
    /\ result.E * result.E = result.deviationX2 * result.deviationY2

\* C5: for X with two distinct active values and any mask,
\* crossCorrelation(X, X, mask) is 1 with E = DX * DY and
\* crossCorrelation(X, -X, mask) is -1 with E = -DX * DY.
C5_SelfCorrelation ==
    (pc = "correlated" /\ TwoActiveValues) =>
        /\ Y = X => /\ ReturnsOne
                    /\ result.E = result.deviationX2
                    /\ result.E = result.deviationY2
        /\ Y = Negated(X) => /\ ReturnsMinusOne
                             /\ result.E = -result.deviationX2
                             /\ result.E = -result.deviationY2

\* a call on (X, -X) under a mask that leaves out a sample differing from the
\* active mean
C5_Witness ==
    /\ pc = "correlated"
    /\ TwoActiveValues
    /\ Y = Negated(X)
    /\ mask # NoMat
    /\ \E p \in DOMAIN mask.at :
          mask.at[p] = 0 /\ deviationAt(X, regionOf(X, mask), p) # 0
    /\ ReturnsMinusOne

----------------------------------------------------------------------------
(* swapQuadrants *)

\* m.copyTo(roi of img): the samples of img under rect become those of m; an
\* empty m copies nothing
paste(img, rect, m) ==
    [img EXCEPT !.at =
        [p \in DOMAIN img.at |->
            IF <<p[1] - rect.y, p[2] - rect.x>> \in DOMAIN m.at
            THEN m.at[<<p[1] - rect.y, p[2] - rect.x>>] ELSE img.at[p]]]

\* an exchange that saves the first region only after overwriting it
exchangeLate(img, ra, rb) ==
    LET img1 == paste(img, ra, submat(img, rb))
        saved == submat(img1, ra)
    IN  paste(img1, rb, saved)

\* a.copyTo(tmp); b.copyTo(a); tmp.copyTo(b) for the views a, b of img
exchange(img, ra, rb) ==
    LET saved == submat(img, ra)
        img1 == paste(img, ra, submat(img, rb))
    IN  paste(img1, rb, saved)

\* the whole call swapQuadrants(image); the caller keeps `original` and
\* counts its calls
swapQuadrants ==
    /\ pc = "swapQuadrants"
    /\ calls < SwapCalls
    /\ LET cx == image.cols \div 2
           cy == image.rows \div 2
           q0 == Rect(0, 0, cx, cy)
           q1 == Rect(cx, 0, cx, cy)
           q2 == Rect(0, cy, cx, cy)
           q3 == Rect(cx, cy, cx, cy)
       IN  image' = exchange(exchange(image, q0, q3), q1, q2)
    /\ calls' = calls + 1
    /\ UNCHANGED <<pc, src, dst, mask, taperedHorizontal, taperedVertical,
                   left, start, row, col, kernel, shape, tmp, roi, X, Y,
                   result, original>>

InitSwapQuadrants ==
    /\ pc = "swapQuadrants"
    /\ \E r \in 1 .. SwapRows, c \in 1 .. SwapCols :
          image \in Grids(r, c, SwapSample)
    /\ original = image
    /\ calls = 0
    /\ src = NoMat
    /\ dst = NoMat
    /\ mask = NoMat
    /\ taperedHorizontal = NoMat
    /\ taperedVertical = NoMat
    /\ left = 0
    /\ start = NoStart
    /\ row = 0
    /\ col = 0
    /\ kernel = NoMat
    /\ shape = "FULL"
    /\ tmp = NoMat
    /\ roi = [x |-> 0, y |-> 0, width |-> 0, height |-> 0]
    /\ X = NoMat
    /\ Y = NoMat
    /\ result = [E |-> 0, deviationX2 |-> 0, deviationY2 |-> 0]

SpecSwapQuadrants == InitSwapQuadrants /\ [][swapQuadrants]_vars

----------------------------------------------------------------------------
(* Properties of swapQuadrants *)

\* C6: after two calls of swapQuadrants every sample of the grid has its
\* original value, whatever the grid's size.
C6_SwapTwiceIsIdentity == (calls = 2) => (image = original)

\* two calls were made on a grid with an odd number of rows and columns whose
\* first call moved samples and left the last row and column alone
C6_Witness ==
    /\ calls = 2
    /\ image.rows = 3 /\ image.cols = 3
    /\ image.at[<<0, 0>>] # image.at[<<1, 1>>]
    /\ image.at[<<0, 1>>] # image.at[<<1, 0>>]
    /\ image = original

----------------------------------------------------------------------------
(* Properties of edgeTaper *)

PastHorizontal == pc \in {"beginVertical", "vertical", "blend", "mask", "guide", "restore", "tapered"}

RowsOf(m) == 0 .. m.rows - 1
ColsOf(m) == 0 .. m.cols - 1

\* columns s..e of row r of src are a maximal run of zeros with a nonzero
\* pixel on each side
InnerZeroRun(r, s, e) ==
    /\ 1 <= s /\ s <= e /\ e <= src.cols - 2
    /\ \A c \in s .. e : src.at[<<r, c>>] = 0
    /\ src.at[<<r, s - 1>>] # 0
    /\ src.at[<<r, e + 1>>] # 0

\* C3: after edgeTaper returns, dst holds src's value wherever mask is
\* nonzero, and the call never changes src, mask or the guide image.
C3_MaskedRestoredInputsKept ==
    /\ [](pc = "tapered" =>
            \A p \in DOMAIN mask.at : mask.at[p] # 0 => dst.at[p] = src.at[p])
    /\ [][src' = src /\ mask' = mask /\ image' = image]_vars

\* a returned call with a masked pixel that the fill stage had changed and an
\* unmasked pixel that the taper replaced
C3_Witness ==
    /\ pc = "tapered"
    /\ \E p \in DOMAIN mask.at :
          mask.at[p] # 0 /\ taperedHorizontal.at[p] # src.at[p]
    /\ \E q \in DOMAIN mask.at : mask.at[q] = 0 /\ dst.at[q] # src.at[q]

\* C4: once the horizontal pass is over, every zero run [s, e] of a row with
\* nonzero neighbours on both sides holds the left neighbour's value in
\* [s, m] and the right neighbour's in (m, e], m = e - (e - s) / 2, and both
\* neighbours keep their values.
C4_InnerRunSplitAtMidpoint ==
    PastHorizontal =>
        \A r \in RowsOf(src), s \in ColsOf(src), e \in ColsOf(src) :
            InnerZeroRun(r, s, e) =>
                LET m == e - ((e - s) \div 2)
                IN  /\ \A c \in s .. m :
                          taperedHorizontal.at[<<r, c>>] = src.at[<<r, s - 1>>]
                    /\ \A c \in (m + 1) .. e :
                          taperedHorizontal.at[<<r, c>>] = src.at[<<r, e + 1>>]
                    /\ taperedHorizontal.at[<<r, s - 1>>] = src.at[<<r, s - 1>>]
                    /\ taperedHorizontal.at[<<r, e + 1>>] = src.at[<<r, e + 1>>]

\* C4's example: the row [5,0,0,0,9] becomes [5,5,5,9,9]
C4_Example ==
    (/\ PastHorizontal
     /\ src.rows = 1
     /\ src.cols = 5
     /\ \A c \in 0 .. 4 :
           src.at[<<0, c>>] = (IF c = 0 THEN 5 ELSE IF c = 4 THEN 9 ELSE 0)) =>
        \A c \in 0 .. 4 :
            taperedHorizontal.at[<<0, c>>] = (IF c <= 2 THEN 5 ELSE 9)

\* C8 as stated: a zero run [0, e] ended by a nonzero pixel keeps 0 in its
\* first half [0, m] and takes the right pixel's value only in (m, e].
C8_LeftBorderRunFirstHalfZero ==
    PastHorizontal =>
        \A r \in RowsOf(src), e \in ColsOf(src) :
            (/\ e <= src.cols - 2
             /\ \A c \in 0 .. e : src.at[<<r, c>>] = 0
             /\ src.at[<<r, e + 1>>] # 0) =>
                LET m == e - (e \div 2)
                IN  /\ \A c \in 0 .. m : taperedHorizontal.at[<<r, c>>] = 0
                    /\ \A c \in (m + 1) .. e :
                          taperedHorizontal.at[<<r, c>>] = src.at[<<r, e + 1>>]

\* C8 amended: when the horizontal scan closes, on a nonzero pixel, a run it
\* opened at column 0, every pixel from the run's start to that pixel holds
\* the pixel's value: both halves take the right-hand value.
C8_LeftBorderRunTakesRightValue ==
    [][(/\ pc = "horizontal"
        /\ start # NoStart
        /\ start.x = 0
        /\ src.at[<<row, col>>] > threshold) =>
            \A p \in DOMAIN src.at :
                (start.y <= p[1] /\ p[1] <= row /\ p[2] <= col) =>
                    taperedHorizontal'.at[p] = src.at[<<row, col>>]]_vars

\* the horizontal pass is over and a row began with at least two zeros that
\* were all replaced by the value of the pixel ending the run
C8_Witness ==
    /\ PastHorizontal
    /\ \E r \in RowsOf(src), e \in ColsOf(src) :
          /\ 1 <= e /\ e <= src.cols - 2
          /\ \A c \in 0 .. e : src.at[<<r, c>>] = 0
          /\ src.at[<<r, e + 1>>] # 0
          /\ \A c \in 0 .. e : taperedHorizontal.at[<<r, c>>] = src.at[<<r, e + 1>>]

\* C9: a row of src without any zero pixel is the same in the
\* horizontally-filled copy, at every moment of the call.
C9_NonzeroRowKept ==
    \A r \in RowsOf(src) :
        (\A c \in ColsOf(src) : src.at[<<r, c>>] # 0) =>
            \A c \in ColsOf(src) :
                taperedHorizontal.at[<<r, c>>] = src.at[<<r, c>>]

\* the horizontal pass is over, a row without zeros follows a row that ends
\* in a zero pixel, and the pass did fill something
C9_Witness ==
    /\ PastHorizontal
    /\ src.cols >= 2
    /\ taperedHorizontal # src
    /\ \E r \in RowsOf(src) :
          /\ r >= 1
          /\ src.at[<<r - 1, src.cols - 1>>] = 0
          /\ src.at[<<r - 1, src.cols - 2>>] # 0
          /\ \A c \in ColsOf(src) : src.at[<<r, c>>] # 0

\* C10: whenever a scan stands at the first pixel of a scan line its run-start
\* marker is the sentinel, and a row of zeros in src is a row of zeros in the
\* horizontally-filled copy.
C10_RunClosedWithinLine ==
    /\ (pc \in {"horizontal", "mask"} /\ col = 0) => start = NoStart
    /\ (pc = "vertical" /\ row = 0) => start = NoStart
    /\ \A r \in RowsOf(src) :
          (\A c \in ColsOf(src) : src.at[<<r, c>>] = 0) =>
              \A c \in ColsOf(src) : taperedHorizontal.at[<<r, c>>] = 0

PastVertical == pc \in {"blend", "mask", "guide", "restore", "tapered"}

\* C11: the fill passes only replace zero pixels: once the horizontal pass is
\* over every nonzero pixel of src has its value in the horizontally-filled
\* copy, and once the vertical pass is over in the vertically-filled copy.
C11_NonzeroPixelsKept ==
    /\ PastHorizontal =>
          \A p \in DOMAIN src.at :
              src.at[p] # 0 => taperedHorizontal.at[p] = src.at[p]
    /\ PastVertical =>
          \A p \in DOMAIN src.at :
              src.at[p] # 0 => taperedVertical.at[p] = src.at[p]

\* C11 for the vertically-filled copy alone
C11_VerticalKept ==
    PastVertical =>
        \A p \in DOMAIN src.at :
            src.at[p] # 0 => taperedVertical.at[p] = src.at[p]

====
